---- MODULE Spec2Model ----
(***************************************************************************)
(* Model of the RSS item store (rss.go) and of the file tree builders     *)
(* (ftree.go, filetree_printer.go) of mrssilver/toolspc.                   *)
(*                                                                         *)
(* Spec      the bucketed store (PersistentStore): NewPersistentStore,     *)
(*           AddItems with its save, process exit, the clock.  Each        *)
(*           handler is one action that follows the handler's statements   *)
(*           on the store's data and on the two files.                     *)
(* SpecPersist  the same with failures of the file system.                 *)
(* SpecLock  the same handlers as goroutines stepping through the          *)
(*           acquisitions of the store's sync.RWMutex.                     *)
(* SpecFetch the flat store (FeedStore) behind Fetcher.FetchAll: callers,  *)
(*           fetch tasks, the permit channel and the store's mutex.        *)
(* SpecFeed  the flat store and the fetcher's statistics, one action per   *)
(*           handler.                                                      *)
(* SpecBatch BatchProcessor: Start with its fetchBatch, Stop, the ticker.  *)
(* SpecRead  Spec with PersistentStore.GetItems and GetAllItems.           *)
(* SpecList  SpecFeed with FeedStore.List.                                 *)
(* SpecFetchLive  one caller of FetchAll under the scheduler's fairness.   *)
(* SpecTree  BuildFromPath and buildDirectoryTree of the two tree builders.*)
(* SpecBatchLive  SpecBatch with any batch size, under fairness of the     *)
(*           steps of a pass and of the select in Start.                   *)
(* SpecTies  SpecFeed with a source whose Records share a published value. *)
(* SpecStats FetchAll calls one after the other, on the data alone.        *)
(* SpecFrame a process that adds to one of the two stores.                 *)
(***************************************************************************)
EXTENDS Integers, Sequences, FiniteSets, TLC

(***************************************************************************)
(* Bounds and input universes                                              *)
(***************************************************************************)
\* retention cap per source that the store is configured with (Config.MaxPerFeed)
MaxItems == 2
\* longest candidate list one parse hands to the store
MaxBatch == 2
\* longest candidate list while file-system failures are injected
MaxBatchPersist == 1
\* clock ticks in one behaviour
MaxTicks == 1
\* file-system failures injected in one behaviour
MaxFaults == 1

\* source identifiers (feed URLs), in the order encoding/json writes map keys
SourceOrder == <<"u1", "u2">>
Sources == {SourceOrder[i] : i \in 1..Len(SourceOrder)}
\* channel title reported for a source (FeedItem.Feed)
FeedOf(u) == IF u = "u1" THEN "Feed One" ELSE "Feed Two"
\* the (id, published) pairs the parser reports for a source: three ids, a
\* tie on published, one id reported with two published values
Reported(u) ==
    IF u = "u1" THEN {<<"a", 1>>, <<"b", 2>>, <<"c", 3>>, <<"c", 2>>}
    ELSE {<<"a", 2>>}
\* maxAge values a store is constructed with (0: no age cleanup)
MaxAges == {0, 2}
\* the clock starts at the newest published value reported and ends MaxTicks
\* later
StartNow ==
    LET pubs == UNION {{r[2] : r \in Reported(u)} : u \in Sources}
    IN  CHOOSE t \in pubs : \A p \in pubs : p <= t
MaxNow == StartNow + MaxTicks

(***************************************************************************)
(* FeedItem and the candidate lists of a source                            *)
(***************************************************************************)
FeedItem(u, id, p) == [Feed |-> FeedOf(u), ID |-> id, Published |-> p]

ItemsOf(u) == {FeedItem(u, r[1], r[2]) : r \in Reported(u)}

SeqsUpTo(S, n) == UNION {[1..k -> S] : k \in 0..n}

Candidates(u) == SeqsUpTo(ItemsOf(u), MaxBatch)

\* time.Time.Before on the published field
Before(x, y) == x.Published < y.Published

(***************************************************************************)
(* sort.SliceStable(items, less = Before): ascending, equal keys keep      *)
(* their relative order                                                    *)
(***************************************************************************)
RECURSIVE InsertStable(_, _)
InsertStable(sorted, x) ==
    IF sorted = <<>> THEN <<x>>
    ELSE IF Before(x, sorted[Len(sorted)])
         THEN Append(InsertStable(SubSeq(sorted, 1, Len(sorted) - 1), x), sorted[Len(sorted)])
         ELSE Append(sorted, x)

\* mutant: the sort is left out
SliceUnsorted(items) == items

RECURSIVE SliceStable(_)
SliceStable(items) ==
    IF items = <<>> THEN <<>>
    ELSE InsertStable(SliceStable(SubSeq(items, 1, Len(items) - 1)), items[Len(items)])

(***************************************************************************)
(* FeedBucket, FeedMeta and the feeds map of PersistentStore               *)
(***************************************************************************)
\* the zero time.Time (a bucket created by AddItems is stamped at once)
ZeroTime == 0

FeedMeta(url, title, lastFetch) == [URL |-> url, Title |-> title, LastFetch |-> lastFetch]

FeedBucket(items, meta) == [Items |-> items, Meta |-> meta]

\* make(map[string]*FeedBucket)
EmptyFeeds == [k \in {} |-> FeedBucket(<<>>, FeedMeta("", "", ZeroTime))]

\* s.feeds[k] = b
MapSet(m, k, b) == [x \in (DOMAIN m) \cup {k} |-> IF x = k THEN b ELSE m[x]]

\* the ID index built from the bucket's current contents (AddItems, "Deduplicate")
ExistingIds(items) == {items[i].ID : i \in 1..Len(items)}

\* mutant: an appended ID is not entered in the index
RECURSIVE AppendNewNoIndex(_, _, _)
AppendNewNoIndex(bucketItems, existing, items) ==
    IF items = <<>> THEN bucketItems
    ELSE IF Head(items).ID \in existing
         THEN AppendNewNoIndex(bucketItems, existing, Tail(items))
         ELSE AppendNewNoIndex(Append(bucketItems, Head(items)), existing, Tail(items))

\* mutant: a candidate with an indexed ID replaces the stored Record
RECURSIVE AppendNewReplace(_, _, _)
AppendNewReplace(bucketItems, existing, items) ==
    IF items = <<>> THEN bucketItems
    ELSE IF Head(items).ID \in existing
         THEN AppendNewReplace(
                  Append(SelectSeq(bucketItems, LAMBDA it : it.ID # Head(items).ID), Head(items)),
                  existing, Tail(items))
         ELSE AppendNewReplace(Append(bucketItems, Head(items)),
                               existing \cup {Head(items).ID}, Tail(items))

\* the "Add new items" loop: skip an indexed ID, else append and index it
RECURSIVE AppendNew(_, _, _)
AppendNew(bucketItems, existing, items) ==
    IF items = <<>> THEN bucketItems
    ELSE IF Head(items).ID \in existing
         THEN AppendNew(bucketItems, existing, Tail(items))
         ELSE AppendNew(Append(bucketItems, Head(items)),
                        existing \cup {Head(items).ID}, Tail(items))

\* cleanupBucket: with maxAge > 0 keep the items published after now - maxAge
cleanupBucket(items, t, age) ==
    IF age <= 0 THEN items
    ELSE SelectSeq(items, LAMBDA it : it.Published > t - age)

\* the in-memory part of AddItems: look up or create, dedup, append, sort,
\* clean, stamp the metadata
AddItemsMem(fs, u, items, t, age) ==
    LET bucket == IF u \in DOMAIN fs THEN fs[u]
                  ELSE FeedBucket(<<>>, FeedMeta(u, "", t))
        added == AppendNew(bucket.Items, ExistingIds(bucket.Items), items)
        kept == cleanupBucket(SliceStable(added), t, age)
        title == IF Len(items) > 0 /\ bucket.Meta.Title = ""
                 THEN items[1].Feed ELSE bucket.Meta.Title
    IN  MapSet(fs, u, FeedBucket(kept, FeedMeta(bucket.Meta.URL, title, t)))

(***************************************************************************)
(* The files: the canonical path and path + ".tmp"                         *)
(***************************************************************************)
NoFile == [kind |-> "missing"]
\* bytes that are not a JSON document
Corrupt == [kind |-> "corrupt"]
\* what a write that stopped part-way leaves: a prefix of a JSON document
Partial == [kind |-> "partial"]

\* mutant: a bucket without items is not written
MarshalNonEmpty(fs) ==
    LET keys == SelectSeq(SourceOrder, LAMBDA k : k \in DOMAIN fs /\ fs[k].Items # <<>>)
    IN  [kind |-> "json",
         members |-> [i \in 1..Len(keys) |-> [key |-> keys[i], value |-> fs[keys[i]]]]]

\* json.MarshalIndent(s.feeds): one member per key, keys in sorted order
Marshal(fs) ==
    LET keys == SelectSeq(SourceOrder, LAMBDA k : k \in DOMAIN fs)
    IN  [kind |-> "json",
         members |-> [i \in 1..Len(keys) |-> [key |-> keys[i], value |-> fs[keys[i]]]]]

\* json.Unmarshal(data, &s.feeds) on a well-formed document: each member is
\* stored under its key
RECURSIVE UnmarshalInto(_, _)
UnmarshalInto(fs, members) ==
    IF members = <<>> THEN fs
    ELSE UnmarshalInto(MapSet(fs, Head(members).key, Head(members).value), Tail(members))

\* mutant: the document is written straight to the canonical path
saveInPlace(fs, outcome, canonical, temp) ==
    CASE outcome = "mkdir"  -> [file |-> canonical, tmp |-> temp, err |-> "mkdir"]
      [] outcome = "open"   -> [file |-> canonical, tmp |-> temp, err |-> "write"]
      [] outcome = "write"  -> [file |-> Partial, tmp |-> temp, err |-> "write"]
      [] OTHER              -> [file |-> Marshal(fs), tmp |-> temp, err |-> "nil"]

\* save: MkdirAll, MarshalIndent, WriteFile(path + ".tmp"), Rename(tmp, path).
\* `outcome` is how far the file system lets it get; the result is the two
\* files and the returned error
save(fs, outcome, canonical, temp) ==
    CASE outcome = "mkdir"  -> [file |-> canonical, tmp |-> temp, err |-> "mkdir"]
      [] outcome = "open"   -> [file |-> canonical, tmp |-> temp, err |-> "write"]
      [] outcome = "write"  -> [file |-> canonical, tmp |-> Partial, err |-> "write"]
      [] outcome = "rename" -> [file |-> canonical, tmp |-> Marshal(fs), err |-> "rename"]
      [] OTHER              -> [file |-> Marshal(fs), tmp |-> NoFile, err |-> "nil"]

SaveOutcomes == {"ok", "mkdir", "open", "write", "rename"}

\* load: a missing file is no error; a read error or an Unmarshal error is
\* returned
load(canonical, readable) ==
    IF canonical.kind = "missing" THEN [err |-> "nil", feeds |-> EmptyFeeds]
    ELSE IF ~readable THEN [err |-> "read", feeds |-> EmptyFeeds]
    ELSE IF canonical.kind = "json"
         THEN [err |-> "nil", feeds |-> UnmarshalInto(EmptyFeeds, canonical.members)]
         ELSE [err |-> "unmarshal", feeds |-> EmptyFeeds]

(***************************************************************************)
(* State                                                                   *)
(***************************************************************************)
VARIABLES
    proc,      \* "down": no store; "up": NewPersistentStore returned a store;
               \* "failed": it returned an error
    feeds,     \* PersistentStore.feeds
    maxAge,    \* PersistentStore.maxAge
    file,      \* content of PersistentStore.path
    tmp,       \* content of path + ".tmp"
    now,       \* time.Now()
    err,       \* error returned by the last NewPersistentStore or AddItems
    faults,    \* file-system failures so far
    everAdded, \* history: per source, the Records this store has held
    lastCall,  \* history: the last AddItems call of this process, with the
               \* bucket's items as it found them
    pc,        \* per goroutine: the statement it is at
    call,      \* per goroutine: the arguments of the call it is in
    mu         \* PersistentStore.mu

VARIABLES
    fstore,    \* "none": no FeedStore; "loading": NewFeedStore is in load; "up"
    storeItems, \* FeedStore.items
    storeMu,   \* FeedStore.mu
    lastFetch, \* FeedStore.lastFetch
    storeFile, \* content of FeedStore.path
    sem,       \* number of values in the channel Fetcher.sem
    stats,     \* Fetcher.stats
    ctx,       \* the context handed to the FetchAll calls: "live" or "done"
    urls,      \* per caller: the urls argument of its FetchAll call
    wg,        \* per caller: the counter of the call's sync.WaitGroup
    errs,      \* per caller: the content of the call's errs channel
    ret,       \* per caller: what its FetchAll call returned
    gpc        \* per goroutine (callers and fetch tasks): the statement it is at

storeVars == <<proc, feeds, maxAge, file, tmp, now, err, faults, everAdded, lastCall>>
lockVars == <<pc, call, mu>>
VARIABLES
    bpc,        \* the statement the goroutine running BatchProcessor.Start is at
                \* ("none": no BatchProcessor yet, "new": Start not called)
    batchSize,  \* BatchProcessor.batchSize
    batchUrls,  \* the urls argument of Start
    idx,        \* the loop variable i of fetchBatch
    done,       \* the channel BatchProcessor.done: "open" or "closed"
    tick,       \* a value is waiting in ticker.C
    passes,     \* history: calls of fetchBatch so far
    ticksTaken, \* history: receives from ticker.C so far
    handed,     \* history: the batches handed to FetchAll in the current pass
    results     \* history: what those FetchAll calls returned

VARIABLES
    lastGet,    \* history: the last GetItems call and its result
    lastQuery   \* history: the last List or GetAllItems call and its result

fetchVars == <<fstore, storeItems, storeMu, lastFetch, storeFile, sem, stats, ctx, urls, wg,
               errs, ret, gpc>>
batchVars == <<bpc, batchSize, batchUrls, idx, done, tick, passes, ticksTaken, handed, results>>
VARIABLES
    tstate,     \* "idle", "building", "done" (BuildFromPath returned nil), "error"
    treeImpl,   \* whose BuildFromPath runs: "FileTree" or "PermissionAware"
    treeCfg,    \* the FileTreeConfig
    fsWidth,    \* the file system under the path: entries per directory
    tree,       \* the paths of the nodes of the tree, the root included
    nodeCount,  \* ft.nodeCount
    stack       \* the running calls of buildDirectoryTree, the innermost last

readVars == <<lastGet, lastQuery>>
treeVars == <<tstate, treeImpl, treeCfg, fsWidth, tree, nodeCount, stack>>
vars == <<storeVars, lockVars, fetchVars, batchVars, readVars, treeVars>>

\* goroutines that call into one store
Goroutines == {"g1", "g2", "g3"}

\* sync.RWMutex: the goroutine holding the writer side (rw.w, readers shut
\* out from then on) and the goroutines holding a read lock
NoOne == "none"
Unlocked == [writer |-> NoOne, readers |-> {}]
NoArgs == [u |-> "", items |-> <<>>]

NoCall == [u |-> "", items |-> <<>>, before |-> <<>>]

\* items of the bucket of u (none when the map has no such key)
ItemsIn(fs, u) == IF u \in DOMAIN fs THEN fs[u].Items ELSE <<>>

Range(q) == {q[i] : i \in 1..Len(q)}

\* largest batchSize a BatchProcessor is constructed with
MaxBatchSize == 2
\* full fetch passes in one behaviour
MaxPasses == 2
\* capacity of the channel Fetcher.sem
SemSize == 5
\* longest list of sources one FetchAll call is given
MaxUrls == 3
\* goroutines that call FetchAll on the one Fetcher
Callers == {"c1", "c2"}
\* <<c, 0>> is caller c itself, <<c, i>> the goroutine FetchAll starts for its
\* i-th url
FetchGoroutines == Callers \X (0..MaxUrls)
TaskIds == Callers \X (1..MaxUrls)
Nobody == <<"", 0>>

\* fmt.Errorf("%s: %w", u, err): the url and what went wrong, "fetch" (the
\* request, the status or the parse) or "context" (ctx.Err())
ErrOf(u, cause) == [url |-> u, cause |-> cause]
\* what a FetchAll call returned: nothing yet, or nil
NotReturned == ErrOf("", "none")
NilError == ErrOf("", "nil")

\* nothing of the flat store and its fetcher is running; f is the store's file
InitFetchVars(f) ==
    /\ fstore = "none"
    /\ storeItems = <<>>
    /\ storeMu = [writer |-> Nobody, readers |-> {}]
    /\ lastFetch = [u \in {} |-> ZeroTime]
    /\ storeFile = f
    /\ sem = 0
    /\ stats = [u \in {} |-> 0]
    /\ ctx = "live"
    /\ urls = [c \in Callers |-> <<>>]
    /\ wg = [c \in Callers |-> 0]
    /\ errs = [c \in Callers |-> <<>>]
    /\ ret = [c \in Callers |-> NotReturned]
    /\ gpc = [g \in FetchGoroutines |-> IF g[2] = 0 THEN "idle" ELSE "none"]

\* no GetItems call to remember
NoGet == [u |-> "", limit |-> 0, since |-> 0, result |-> <<>>]

\* no List or GetAllItems call to remember
NoQuery ==
    [op |-> "none", limit |-> 0, filter |-> "", since |-> 0, reverse |-> FALSE,
     result |-> <<>>]

\* the FileTreeConfig fields that decide which nodes are built
Config(maxDepth, maxNodes, followLinks, noLimit, showHidden) ==
    [MaxDepth |-> maxDepth, MaxNodes |-> maxNodes, FollowLinks |-> followLinks,
     NoLimit |-> noLimit, ShowHidden |-> showHidden]

InitTree ==
    /\ tstate = "idle"
    /\ treeImpl = "FileTree"
    /\ treeCfg = Config(0, 0, FALSE, FALSE, FALSE)
    /\ fsWidth = 0
    /\ tree = {}
    /\ nodeCount = 0
    /\ stack = <<>>

InitStore ==
    /\ InitTree
    /\ lastQuery = NoQuery
    /\ bpc = "none"
    /\ batchSize = 0
    /\ batchUrls = <<>>
    /\ idx = 0
    /\ done = "open"
    /\ tick = FALSE
    /\ passes = 0
    /\ ticksTaken = 0
    /\ handed = <<>>
    /\ results = <<>>
    /\ lastGet = NoGet
    /\ proc = "down"
    /\ feeds = EmptyFeeds
    /\ maxAge = 0
    /\ tmp = NoFile
    /\ now = StartNow
    /\ err = "nil"
    /\ faults = 0
    /\ everAdded = [u \in Sources |-> {}]
    /\ lastCall = NoCall
    /\ pc = [g \in Goroutines |-> "idle"]
    /\ call = [g \in Goroutines |-> NoArgs]
    /\ mu = Unlocked

Init ==
    /\ InitStore
    /\ file \in {NoFile, Corrupt}
    /\ InitFetchVars(NoFile)

\* NewPersistentStore(path, age): build the store and load the file
NewPersistentStore(age, readable) ==
    /\ proc = "down"
    /\ lastCall = NoCall
    /\ readable \/ faults < MaxFaults
    /\ LET r == load(file, readable) IN
        /\ proc' = IF r.err = "nil" THEN "up" ELSE "failed"
        /\ feeds' = r.feeds
        /\ err' = r.err
    /\ maxAge' = age
    /\ faults' = IF readable THEN faults ELSE faults + 1
    /\ everAdded' = [u \in Sources |-> Range(ItemsIn(load(file, readable).feeds, u))]
    /\ UNCHANGED <<file, tmp, now, lastCall>>
    /\ UNCHANGED <<lockVars, fetchVars, batchVars, readVars, treeVars>>

\* mutant: the bucket is put back when save fails
AddItemsRollback(u, items, outcome) ==
    /\ proc = "up"
    /\ lastCall = NoCall
    /\ outcome = "ok" \/ faults < MaxFaults
    /\ LET fs == AddItemsMem(feeds, u, items, now, maxAge)
            r == save(fs, outcome, file, tmp)
        IN  /\ feeds' = IF r.err = "nil" THEN fs ELSE feeds
            /\ file' = r.file
            /\ tmp' = r.tmp
            /\ err' = r.err
    /\ faults' = IF outcome = "ok" THEN faults ELSE faults + 1
    /\ LET before == ItemsIn(feeds, u)
            added == AppendNew(before, ExistingIds(before), items)
        IN  /\ everAdded' = [everAdded EXCEPT ![u] = @ \cup (Range(added) \ Range(before))]
            /\ lastCall' = [u |-> u, items |-> items, before |-> before]
    /\ UNCHANGED <<proc, maxAge, now>>
    /\ UNCHANGED <<lockVars, fetchVars, batchVars, readVars, treeVars>>

\* AddItems(feedURL, items), through to the return of save
AddItems(u, items, outcome) ==
    /\ proc = "up"
    /\ lastCall = NoCall
    /\ outcome = "ok" \/ faults < MaxFaults
    /\ LET fs == AddItemsMem(feeds, u, items, now, maxAge)
            r == save(fs, outcome, file, tmp)
        IN  /\ feeds' = fs
            /\ file' = r.file
            /\ tmp' = r.tmp
            /\ err' = r.err
    /\ faults' = IF outcome = "ok" THEN faults ELSE faults + 1
    /\ LET before == ItemsIn(feeds, u)
            added == AppendNew(before, ExistingIds(before), items)
        IN  /\ everAdded' = [everAdded EXCEPT ![u] = @ \cup (Range(added) \ Range(before))]
            /\ lastCall' = [u |-> u, items |-> items, before |-> before]
    /\ UNCHANGED <<proc, maxAge, now>>
    /\ UNCHANGED <<lockVars, fetchVars, batchVars, readVars, treeVars>>

\* the process ends (main returns, or it is killed): the store is gone, the
\* files stay
Exit ==
    /\ proc # "down"
    /\ lastCall = NoCall
    /\ proc' = "down"
    /\ feeds' = EmptyFeeds
    /\ maxAge' = 0
    /\ err' = "nil"
    /\ everAdded' = [u \in Sources |-> {}]
    /\ UNCHANGED <<file, tmp, now, faults, lastCall>>
    /\ UNCHANGED <<lockVars, fetchVars, batchVars, readVars, treeVars>>

\* time passes
Tick ==
    /\ now < MaxNow
    /\ lastCall = NoCall
    /\ now' = now + 1
    /\ UNCHANGED <<proc, feeds, maxAge, file, tmp, err, faults, everAdded, lastCall>>
    /\ UNCHANGED <<lockVars, fetchVars, batchVars, readVars, treeVars>>

\* history only: the record of the last call is dropped before the next
\* step of the program
Forget ==
    /\ lastCall # NoCall
    /\ lastCall' = NoCall
    /\ UNCHANGED <<proc, feeds, maxAge, file, tmp, now, err, faults, everAdded>>
    /\ UNCHANGED <<lockVars, fetchVars, batchVars, readVars, treeVars>>

\* the file system never fails
Next ==
    \/ \E age \in MaxAges : NewPersistentStore(age, TRUE)
    \/ \E u \in Sources : \E items \in Candidates(u) : AddItems(u, items, "ok")
    \/ Exit
    \/ Tick
    \/ Forget

Spec == Init /\ [][Next]_vars

\* the file system may fail, MaxFaults times; the clock stands
NextPersist ==
    \/ \E age \in MaxAges, readable \in BOOLEAN : NewPersistentStore(age, readable)
    \/ \E u \in Sources : \E items \in SeqsUpTo(ItemsOf(u), MaxBatchPersist),
                              outcome \in SaveOutcomes :
          AddItems(u, items, outcome)
    \/ Exit
    \/ Forget

SpecPersist == Init /\ [][NextPersist]_vars

(***************************************************************************)
(* SpecLock: NewPersistentStore/load, AddItems/save and GetItems as         *)
(* goroutines, one action per sync.RWMutex operation and one for the        *)
(* statements between two of them                                           *)
(***************************************************************************)
\* the statement after each statement, by label
After(label) ==
    CASE label = "load.Lock"        -> "load.wait"
      [] label = "load.wait"        -> "load.locked"
      [] label = "load.locked"      -> "load.Unlock"
      [] label = "AddItems.Lock"    -> "AddItems.wait"
      [] label = "AddItems.wait"    -> "AddItems.locked"
      [] label = "AddItems.locked"  -> "save.RLock"
      [] label = "save.RLock"       -> "save.locked"
      [] label = "save.locked"      -> "save.RUnlock"
      [] label = "save.RUnlock"     -> "AddItems.Unlock"
      [] label = "GetItems.RLock"   -> "GetItems.locked"
      [] label = "GetItems.locked"  -> "GetItems.RUnlock"
      [] OTHER                      -> "idle"

Goto(g) == pc' = [pc EXCEPT ![g] = After(pc[g])]

InitLock ==
    /\ Init
    /\ file = NoFile

\* NewPersistentStore builds the store and calls load
CallNew(g, age) ==
    /\ proc = "down"
    /\ pc[g] = "idle"
    /\ proc' = "loading"
    /\ maxAge' = age
    /\ pc' = [pc EXCEPT ![g] = "load.Lock"]
    /\ UNCHANGED <<feeds, file, tmp, now, err, faults, everAdded, lastCall, call, mu>>
    /\ UNCHANGED <<fetchVars, batchVars, readVars, treeVars>>

\* a goroutine calls AddItems(u, items)
CallAddItems(g, u, items) ==
    /\ proc = "up"
    /\ pc[g] = "idle"
    /\ pc' = [pc EXCEPT ![g] = "AddItems.Lock"]
    /\ call' = [call EXCEPT ![g] = [u |-> u, items |-> items]]
    /\ UNCHANGED <<storeVars, mu>>
    /\ UNCHANGED <<fetchVars, batchVars, readVars, treeVars>>

\* a goroutine calls GetItems(u, 0, zero time)
CallGetItems(g, u) ==
    /\ proc = "up"
    /\ pc[g] = "idle"
    /\ pc' = [pc EXCEPT ![g] = "GetItems.RLock"]
    /\ call' = [call EXCEPT ![g] = [u |-> u, items |-> <<>>]]
    /\ UNCHANGED <<storeVars, mu>>
    /\ UNCHANGED <<fetchVars, batchVars, readVars, treeVars>>

\* mu.Lock(), first half: take the writer side; readers are shut out from here
LockAnnounce(g) ==
    /\ pc[g] \in {"load.Lock", "AddItems.Lock"}
    /\ mu.writer = NoOne
    /\ mu' = [mu EXCEPT !.writer = g]
    /\ Goto(g)
    /\ UNCHANGED <<storeVars, call>>
    /\ UNCHANGED <<fetchVars, batchVars, readVars, treeVars>>

\* mu.Lock(), second half: wait until the readers have left
LockAcquire(g) ==
    /\ pc[g] \in {"load.wait", "AddItems.wait"}
    /\ mu.readers = {}
    /\ Goto(g)
    /\ UNCHANGED <<storeVars, call, mu>>
    /\ UNCHANGED <<fetchVars, batchVars, readVars, treeVars>>

\* mu.RLock(): blocks while a goroutine has the writer side
RLock(g) ==
    /\ pc[g] \in {"GetItems.RLock", "save.RLock"}
    /\ mu.writer = NoOne
    /\ mu' = [mu EXCEPT !.readers = @ \cup {g}]
    /\ Goto(g)
    /\ UNCHANGED <<storeVars, call>>
    /\ UNCHANGED <<fetchVars, batchVars, readVars, treeVars>>

\* mu.RUnlock()
RUnlock(g) ==
    /\ pc[g] \in {"GetItems.RUnlock", "save.RUnlock"}
    /\ mu' = [mu EXCEPT !.readers = @ \ {g}]
    /\ Goto(g)
    /\ UNCHANGED <<storeVars, call>>
    /\ UNCHANGED <<fetchVars, batchVars, readVars, treeVars>>

\* the deferred mu.Unlock() and the return; NewPersistentStore hands out the
\* store when load returned no error
Unlock(g) ==
    /\ pc[g] \in {"load.Unlock", "AddItems.Unlock"}
    /\ mu' = [mu EXCEPT !.writer = NoOne]
    /\ proc' = IF pc[g] = "load.Unlock" THEN (IF err = "nil" THEN "up" ELSE "failed") ELSE proc
    /\ Goto(g)
    /\ UNCHANGED <<feeds, maxAge, file, tmp, now, err, faults, everAdded, lastCall, call>>
    /\ UNCHANGED <<fetchVars, batchVars, readVars, treeVars>>

\* the statements a function runs with the lock held
Body(g) ==
    /\ pc[g] \in {"load.locked", "AddItems.locked", "save.locked", "GetItems.locked"}
    /\ Goto(g)
    /\ CASE pc[g] = "load.locked" ->
               /\ feeds' = load(file, TRUE).feeds
               /\ err' = load(file, TRUE).err
               /\ UNCHANGED <<file, tmp, everAdded, lastCall>>
          [] pc[g] = "AddItems.locked" ->
               /\ feeds' = AddItemsMem(feeds, call[g].u, call[g].items, now, maxAge)
               /\ UNCHANGED <<file, tmp, err, everAdded, lastCall>>
          [] pc[g] = "save.locked" ->
               /\ file' = save(feeds, "ok", file, tmp).file
               /\ tmp' = save(feeds, "ok", file, tmp).tmp
               /\ err' = save(feeds, "ok", file, tmp).err
               /\ UNCHANGED <<feeds, everAdded, lastCall>>
          [] OTHER -> UNCHANGED <<feeds, file, tmp, err, everAdded, lastCall>>
    /\ UNCHANGED <<proc, maxAge, now, faults, call, mu>>
    /\ UNCHANGED <<fetchVars, batchVars, readVars, treeVars>>

\* a step of a goroutine inside a call
GoStep ==
    \E g \in Goroutines :
        \/ LockAnnounce(g)
        \/ LockAcquire(g)
        \/ RLock(g)
        \/ RUnlock(g)
        \/ Unlock(g)
        \/ Body(g)

NextLock ==
    \/ \E g \in Goroutines, age \in MaxAges : CallNew(g, age)
    \/ \E g \in Goroutines, u \in Sources :
          \E items \in SeqsUpTo(ItemsOf(u), MaxBatchPersist) : CallAddItems(g, u, items)
    \/ \E g \in Goroutines, u \in Sources : CallGetItems(g, u)
    \/ GoStep

SpecLock == InitLock /\ [][NextLock]_vars

\* C1: a call that has been entered can go on: while a goroutine is inside a
\* call of the store, some goroutine inside a call has its next step enabled
C1_CallsReturn ==
    (\E g \in Goroutines : pc[g] # "idle") => ENABLED GoStep

(***************************************************************************)
(* Properties of the bucketed store                                        *)
(***************************************************************************)
Buckets == DOMAIN feeds

\* C2: every bucket holds at most MaxItems Records
C2_Cap ==
    \A u \in Buckets : Len(feeds[u].Items) <= MaxItems

IsSorted(items) ==
    \A i \in 1..(Len(items) - 1) : items[i].Published <= items[i + 1].Published

\* C3: once more than MaxItems distinct Records have been added to a source,
\* its bucket holds exactly MaxItems of them, none published earlier than a
\* Record that was added and is not retained, in ascending published order
C3_MostRecentSurvive ==
    \A u \in Buckets :
        Cardinality(everAdded[u]) > MaxItems =>
            /\ Len(feeds[u].Items) = MaxItems
            /\ Range(feeds[u].Items) \subseteq everAdded[u]
            /\ \A x \in Range(feeds[u].Items), y \in everAdded[u] \ Range(feeds[u].Items) :
                   y.Published <= x.Published
            /\ IsSorted(feeds[u].Items)

\* C4: in every bucket each Record is published no later than its successor
C4_Sorted ==
    \A u \in Buckets : IsSorted(feeds[u].Items)

\* a call whose candidates arrived newest first, both now stored oldest first
C4_Witness ==
    /\ lastCall.u \in Buckets
    /\ Len(lastCall.items) = 2
    /\ lastCall.items[1].Published > lastCall.items[2].Published
    /\ lastCall.before # <<>>
    /\ Range(lastCall.items) \subseteq Range(feeds[lastCall.u].Items)
    /\ Len(feeds[lastCall.u].Items) = 3

\* C5: the ids inside one bucket are pairwise distinct
C5_UniqueIds ==
    \A u \in Buckets :
        \A i, j \in 1..Len(feeds[u].Items) :
            feeds[u].Items[i].ID = feeds[u].Items[j].ID => i = j

\* one call carried two candidates with the same id, new to the bucket, and
\* the bucket now stores that id
C5_Witness ==
    /\ lastCall.u \in Buckets
    /\ Len(lastCall.items) = 2
    /\ lastCall.items[1].ID = lastCall.items[2].ID
    /\ lastCall.items[1] # lastCall.items[2]
    /\ lastCall.items[1].ID \notin ExistingIds(lastCall.before)
    /\ lastCall.items[1] \in Range(feeds[lastCall.u].Items)

\* the last call carried candidates, every one with an id the bucket held
AllPresentCall ==
    /\ lastCall.u \in Buckets
    /\ lastCall.items # <<>>
    /\ ExistingIds(lastCall.items) \subseteq ExistingIds(lastCall.before)

\* C6 as stated: such a call leaves the bucket's length and the stored
\* Records of those ids unchanged
C6_DedupUnchanged ==
    AllPresentCall =>
        /\ Len(feeds[lastCall.u].Items) = Len(lastCall.before)
        /\ \A x \in Range(lastCall.before) :
               x.ID \in ExistingIds(lastCall.items) => x \in Range(feeds[lastCall.u].Items)

\* C6 amended: such a call adds, replaces and reorders nothing: the bucket is
\* what it was, less Records that the call's age cleanup removed, and every
\* Record published after now - maxAge (every Record when maxAge <= 0) is
\* still there
C6_DedupAddsNothing ==
    AllPresentCall =>
        LET cur == feeds[lastCall.u].Items
        IN  /\ cur = SelectSeq(lastCall.before, LAMBDA x : x \in Range(cur))
            /\ \A x \in Range(lastCall.before) :
                   (maxAge <= 0 \/ x.Published > now - maxAge) => x \in Range(cur)

\* the candidate's id was stored with another published value, and the
\* stored Record is still the one held
C6_Witness ==
    /\ AllPresentCall
    /\ Len(lastCall.before) = 2
    /\ feeds[lastCall.u].Items = lastCall.before
    /\ \E x \in Range(lastCall.items) : x \notin Range(lastCall.before)

(***************************************************************************)
(* Properties of the persistence protocol                                  *)
(***************************************************************************)
\* C7: the canonical file is never a partly written document, and a step
\* changes it only to the complete serialization of the store, in a save that
\* succeeds; a save that stops before the rename leaves it as it was
C7_Atomic ==
    [][/\ file'.kind # "partial"
       /\ file' # file => (err' = "nil" /\ file' = Marshal(feeds'))]_vars

\* a write of the temporary file stopped part-way while the canonical file
\* held an earlier save, which the store in memory has since left behind
C7_Witness ==
    /\ err = "write"
    /\ tmp = Partial
    /\ file.kind = "json"
    /\ file # Marshal(feeds)
    /\ \E u \in Buckets : feeds[u].Items # <<>>

\* C8: constructing the store does not fail on the content of the file: a
\* missing or an unparseable file gives an empty store and no error
C8_LoadTolerant ==
    ~(proc = "failed" /\ err = "unmarshal")

(***************************************************************************)
(* SpecFetch: NewFeedStore/load, Fetcher.FetchAll and its fetch tasks,      *)
(* FeedStore.UpdateFeed/Add/save and List as goroutines, one action per     *)
(* channel, context or mutex operation and one for the statements between   *)
(***************************************************************************)
\* the configured feed list (Config.Feeds); a FetchAll call is handed a slice
\* of it
Feeds == [i \in 1..MaxUrls |-> SourceOrder[((i - 1) % Len(SourceOrder)) + 1]]
UrlLists == {SubSeq(Feeds, i, j) : i \in 1..MaxUrls, j \in 0..MaxUrls}

\* what fetchFeed parses out of the response of a source
Served(u) ==
    IF u = "u1" THEN <<FeedItem(u, "b", 2), FeedItem(u, "a", 1)>>
    ELSE <<FeedItem(u, "a", 2)>>

\* json.MarshalIndent(s.items)
MarshalItems(list) == [kind |-> "json", items |-> list]
\* the files NewFeedStore may find
StoreFiles == {NoFile, Corrupt, MarshalItems(<<>>)}

\* the orders in which a range over a map with these keys may visit them
Orders(S) == {q \in [1..Cardinality(S) -> S] : Range(q) = S}

FeedsIn(list) == {list[i].Feed : i \in 1..Len(list)}

\* the last n elements of a slice
LastN(list, n) == IF Len(list) > n THEN SubSeq(list, Len(list) - n + 1, Len(list)) ELSE list

RECURSIVE PerFeed(_, _)
\* truncatePerFeed's loop over feedItems, visiting the feeds in this order
PerFeed(list, order) ==
    IF order = <<>> THEN <<>>
    ELSE LastN(SliceStable(SelectSeq(list, LAMBDA x : x.Feed = Head(order))), MaxItems)
             \o PerFeed(list, Tail(order))

\* mutant: the cap is applied to the flat slice as a whole
truncateFlat(list, order) == LastN(SliceStable(list), MaxItems)

\* truncatePerFeed, the feeds visited in this order
truncatePerFeed(list, order) == SliceStable(PerFeed(list, order))

\* mutant: the overall step keeps the last maxItems items of the flat slice
AddMemFlat(stored, new, order) ==
    LET appended == AppendNew(stored, ExistingIds(stored), new)
        kept == truncatePerFeed(SliceStable(appended), order)
    IN  LastN(kept, MaxItems)

\* FeedStore.Add up to the call of save
AddMem(stored, new, order) ==
    LET appended == AppendNew(stored, ExistingIds(stored), new)
        kept == truncatePerFeed(SliceStable(appended), order)
    IN  LastN(kept, MaxItems * Cardinality(FeedsIn(kept)))

CallerOf(g) == g[1]
Self(c) == <<c, 0>>
TasksOf(c) == {<<c, i>> : i \in 1..Len(urls[c])}
UrlOf(t) == urls[t[1]][t[2]]

\* the statement after each statement, by label
Following(label) ==
    CASE label = "load.Lock"            -> "load.wait"
      [] label = "load.wait"            -> "load.locked"
      [] label = "load.locked"          -> "load.Unlock"
      [] label = "load.Unlock"          -> "idle"
      [] label = "select"               -> "fetchFeed"
      [] label = "fetchFeed"            -> "Add.Lock"
      [] label = "Add.Lock"             -> "Add.wait"
      [] label = "Add.wait"             -> "Add.locked"
      [] label = "Add.locked"           -> "save.RLock"
      [] label = "save.RLock"           -> "save.locked"
      [] label = "save.locked"          -> "save.RUnlock"
      [] label = "save.RUnlock"         -> "save.write"
      [] label = "save.write"           -> "Add.Unlock"
      [] label = "Add.Unlock"           -> "UpdateFeed.lastFetch"
      [] label = "UpdateFeed.lastFetch" -> "FetchAll.stats"
      [] label = "FetchAll.stats"       -> "FetchAll.release"
      [] label = "FetchAll.release"     -> "done"
      [] label = "List.RLock"           -> "List.locked"
      [] label = "List.locked"          -> "List.RUnlock"
      [] OTHER                          -> "end"

Advance(g) == gpc' = [gpc EXCEPT ![g] = Following(gpc[g])]

InitFetch ==
    /\ InitStore
    /\ file = NoFile
    /\ \E f \in StoreFiles : InitFetchVars(f)

\* NewFeedStore(path, maxItems) up to load's s.mu.Lock(): a missing file and
\* one that does not parse leave the store empty
NewFeedStore(c) ==
    /\ fstore = "none"
    /\ gpc[Self(c)] = "idle"
    /\ IF storeFile.kind = "json"
         THEN /\ fstore' = "loading"
              /\ gpc' = [gpc EXCEPT ![Self(c)] = "load.Lock"]
         ELSE /\ fstore' = "up"
              /\ UNCHANGED gpc
    /\ UNCHANGED <<storeItems, storeMu, lastFetch, storeFile, sem, stats, ctx, urls, wg,
                   errs, ret>>
    /\ UNCHANGED <<storeVars, lockVars, batchVars, readVars, treeVars>>

\* FetchAll(ctx, list) up to wg.Wait(): one goroutine per url
FetchAll(c, list) ==
    /\ fstore = "up"
    /\ gpc[Self(c)] = "idle"
    /\ ret[c] = NotReturned
    /\ urls' = [urls EXCEPT ![c] = list]
    /\ wg' = [wg EXCEPT ![c] = Len(list)]
    /\ errs' = [errs EXCEPT ![c] = <<>>]
    /\ gpc' = [g \in FetchGoroutines |->
                  IF g = Self(c) THEN "wg.Wait"
                  ELSE IF g[1] = c /\ g[2] <= Len(list) THEN "select"
                  ELSE gpc[g]]
    /\ UNCHANGED <<fstore, storeItems, storeMu, lastFetch, storeFile, sem, stats, ctx, ret>>
    /\ UNCHANGED <<storeVars, lockVars, batchVars, readVars, treeVars>>

\* the context is cancelled or its deadline passes
Cancel ==
    /\ ctx = "live"
    /\ ctx' = "done"
    /\ UNCHANGED <<fstore, storeItems, storeMu, lastFetch, storeFile, sem, stats, urls, wg,
                   errs, ret, gpc>>
    /\ UNCHANGED <<storeVars, lockVars, batchVars, readVars, treeVars>>

\* select, without the room that the channel's capacity leaves
AcquireUnbounded(t) ==
    /\ gpc[t] = "select"
    /\ sem' = sem + 1
    /\ Advance(t)
    /\ UNCHANGED <<fstore, storeItems, storeMu, lastFetch, storeFile, stats, ctx, urls, wg,
                   errs, ret>>
    /\ UNCHANGED <<storeVars, lockVars, batchVars, readVars, treeVars>>

\* select, case f.sem <- struct{}{}: the send goes through while the channel
\* has room
Acquire(t) ==
    /\ gpc[t] = "select"
    /\ sem < SemSize
    /\ sem' = sem + 1
    /\ Advance(t)
    /\ UNCHANGED <<fstore, storeItems, storeMu, lastFetch, storeFile, stats, ctx, urls, wg,
                   errs, ret>>
    /\ UNCHANGED <<storeVars, lockVars, batchVars, readVars, treeVars>>

\* select, case <-ctx.Done(): return without a permit; the deferred wg.Done()
Skip(t) ==
    /\ gpc[t] = "select"
    /\ ctx = "done"
    /\ gpc' = [gpc EXCEPT ![t] = "skipped"]
    /\ wg' = [wg EXCEPT ![CallerOf(t)] = @ - 1]
    /\ UNCHANGED <<fstore, storeItems, storeMu, lastFetch, storeFile, sem, stats, ctx, urls,
                   errs, ret>>
    /\ UNCHANGED <<storeVars, lockVars, batchVars, readVars, treeVars>>

\* fetchFeed returns the parsed items; UpdateFeed goes on to s.Add(items)
FetchOk(t) ==
    /\ gpc[t] = "fetchFeed"
    /\ ctx = "live"
    /\ Advance(t)
    /\ UNCHANGED <<fstore, storeItems, storeMu, lastFetch, storeFile, sem, stats, ctx, urls,
                   wg, errs, ret>>
    /\ UNCHANGED <<storeVars, lockVars, batchVars, readVars, treeVars>>

\* what fetchFeed's error is when it returns one now: the client gives back
\* the context's error once the context is done
FetchError(u) == ErrOf(u, IF ctx = "done" THEN "context" ELSE "fetch")

\* fetchFeed returns an error: errs <- err, return; the deferred receive from
\* f.sem and wg.Done()
FetchFail(t) ==
    /\ gpc[t] = "fetchFeed"
    /\ errs' = [errs EXCEPT ![CallerOf(t)] = Append(@, FetchError(UrlOf(t)))]
    /\ sem' = sem - 1
    /\ wg' = [wg EXCEPT ![CallerOf(t)] = @ - 1]
    /\ gpc' = [gpc EXCEPT ![t] = "failed"]
    /\ UNCHANGED <<fstore, storeItems, storeMu, lastFetch, storeFile, stats, ctx, urls, ret>>
    /\ UNCHANGED <<storeVars, lockVars, batchVars, readVars, treeVars>>

\* s.mu.Lock(), first half: take the writer side; readers are shut out from here
FeedLock(g) ==
    /\ gpc[g] \in {"load.Lock", "Add.Lock"}
    /\ storeMu.writer = Nobody
    /\ storeMu' = [storeMu EXCEPT !.writer = g]
    /\ Advance(g)
    /\ UNCHANGED <<fstore, storeItems, lastFetch, storeFile, sem, stats, ctx, urls, wg, errs,
                   ret>>
    /\ UNCHANGED <<storeVars, lockVars, batchVars, readVars, treeVars>>

\* s.mu.Lock(), second half: wait until the readers have left
FeedLockWait(g) ==
    /\ gpc[g] \in {"load.wait", "Add.wait"}
    /\ storeMu.readers = {}
    /\ Advance(g)
    /\ UNCHANGED <<fstore, storeItems, storeMu, lastFetch, storeFile, sem, stats, ctx, urls,
                   wg, errs, ret>>
    /\ UNCHANGED <<storeVars, lockVars, batchVars, readVars, treeVars>>

\* s.mu.RLock(): blocks while a goroutine has the writer side
FeedRLock(g) ==
    /\ gpc[g] \in {"save.RLock", "List.RLock"}
    /\ storeMu.writer = Nobody
    /\ storeMu' = [storeMu EXCEPT !.readers = @ \cup {g}]
    /\ Advance(g)
    /\ UNCHANGED <<fstore, storeItems, lastFetch, storeFile, sem, stats, ctx, urls, wg, errs,
                   ret>>
    /\ UNCHANGED <<storeVars, lockVars, batchVars, readVars, treeVars>>

\* s.mu.RUnlock()
FeedRUnlock(g) ==
    /\ gpc[g] \in {"save.RUnlock", "List.RUnlock"}
    /\ storeMu' = [storeMu EXCEPT !.readers = @ \ {g}]
    /\ Advance(g)
    /\ UNCHANGED <<fstore, storeItems, lastFetch, storeFile, sem, stats, ctx, urls, wg, errs,
                   ret>>
    /\ UNCHANGED <<storeVars, lockVars, batchVars, readVars, treeVars>>

\* s.mu.Unlock(): in load, after which NewFeedStore returns the store, and
\* deferred in Add
FeedUnlock(g) ==
    /\ gpc[g] \in {"load.Unlock", "Add.Unlock"}
    /\ storeMu' = [storeMu EXCEPT !.writer = Nobody]
    /\ fstore' = IF gpc[g] = "load.Unlock" THEN "up" ELSE fstore
    /\ Advance(g)
    /\ UNCHANGED <<storeItems, lastFetch, storeFile, sem, stats, ctx, urls, wg, errs, ret>>
    /\ UNCHANGED <<storeVars, lockVars, batchVars, readVars, treeVars>>

\* the labels of the statements that wait for nothing
BodyLabels ==
    {"load.locked", "Add.locked", "save.locked", "save.write", "UpdateFeed.lastFetch",
     "FetchAll.stats", "FetchAll.release", "List.locked"}

\* the statements between two operations of the mutex or of the channel
FeedBody(g) ==
    /\ gpc[g] \in BodyLabels
    /\ Advance(g)
    /\ CASE gpc[g] = "load.locked" ->
               /\ storeItems' = storeFile.items
               /\ UNCHANGED <<lastFetch, storeFile, sem, stats, wg>>
          [] gpc[g] = "Add.locked" ->
               /\ \E order \in Orders(FeedsIn(AppendNew(storeItems, ExistingIds(storeItems),
                                                        Served(UrlOf(g)))))  :
                     storeItems' = AddMem(storeItems, Served(UrlOf(g)), order)
               /\ UNCHANGED <<lastFetch, storeFile, sem, stats, wg>>
          [] gpc[g] = "save.write" ->
               \* the goroutine holds the writer side since Add.Lock, so the
               \* bytes marshalled at save.locked are those of s.items now
               /\ storeFile' = MarshalItems(storeItems)
               /\ UNCHANGED <<storeItems, lastFetch, sem, stats, wg>>
          [] gpc[g] = "UpdateFeed.lastFetch" ->
               /\ lastFetch' = MapSet(lastFetch, UrlOf(g), now)
               /\ UNCHANGED <<storeItems, storeFile, sem, stats, wg>>
          [] gpc[g] = "FetchAll.stats" ->
               /\ stats' = MapSet(stats, UrlOf(g), Len(Served(UrlOf(g))))
               /\ UNCHANGED <<storeItems, lastFetch, storeFile, sem, wg>>
          [] gpc[g] = "FetchAll.release" ->
               /\ sem' = sem - 1
               /\ wg' = [wg EXCEPT ![CallerOf(g)] = @ - 1]
               /\ UNCHANGED <<storeItems, lastFetch, storeFile, stats>>
          [] OTHER -> UNCHANGED <<storeItems, lastFetch, storeFile, sem, stats, wg>>
    /\ UNCHANGED <<fstore, storeMu, ctx, urls, errs, ret>>
    /\ UNCHANGED <<storeVars, lockVars, batchVars, readVars, treeVars>>

\* FetchAll without wg.Wait(): it returns what the channel holds now
ReturnNoWait(c) ==
    /\ gpc[Self(c)] = "wg.Wait"
    /\ ret' = [ret EXCEPT ![c] = IF errs[c] = <<>> THEN NilError ELSE Head(errs[c])]
    /\ gpc' = [gpc EXCEPT ![Self(c)] = "returned"]
    /\ UNCHANGED <<fstore, storeItems, storeMu, lastFetch, storeFile, sem, stats, ctx, urls,
                   wg, errs>>
    /\ UNCHANGED <<storeVars, lockVars, batchVars, readVars, treeVars>>

\* wg.Wait() is over: close(errs), return the first error in the channel
Return(c) ==
    /\ gpc[Self(c)] = "wg.Wait"
    /\ wg[c] = 0
    /\ ret' = [ret EXCEPT ![c] = IF errs[c] = <<>> THEN NilError ELSE Head(errs[c])]
    /\ gpc' = [gpc EXCEPT ![Self(c)] = "returned"]
    /\ UNCHANGED <<fstore, storeItems, storeMu, lastFetch, storeFile, sem, stats, ctx, urls,
                   wg, errs>>
    /\ UNCHANGED <<storeVars, lockVars, batchVars, readVars, treeVars>>

\* the caller goes on to store.List(...)
CallList(c) ==
    /\ gpc[Self(c)] = "returned"
    /\ gpc' = [gpc EXCEPT ![Self(c)] = "List.RLock"]
    /\ UNCHANGED <<fstore, storeItems, storeMu, lastFetch, storeFile, sem, stats, ctx, urls,
                   wg, errs, ret>>
    /\ UNCHANGED <<storeVars, lockVars, batchVars, readVars, treeVars>>

\* a step that may have to wait: for a permit, the context, the response,
\* the mutex, or in wg.Wait() for the tasks
WaitStep ==
    \/ \E g \in FetchGoroutines :
          \/ Acquire(g)
          \/ Skip(g)
          \/ FetchOk(g)
          \/ FetchFail(g)
          \/ FeedLock(g)
          \/ FeedLockWait(g)
          \/ FeedRLock(g)
          \/ FeedRUnlock(g)
          \/ FeedUnlock(g)
    \/ \E c \in Callers : Return(c)

NextFetch ==
    \/ \E c \in Callers : NewFeedStore(c)
    \/ \E c \in Callers, list \in UrlLists : FetchAll(c, list)
    \/ Cancel
    \/ WaitStep
    \/ \E g \in FetchGoroutines : FeedBody(g)
    \/ \E c \in Callers : CallList(c)

SpecFetch == InitFetch /\ [][NextFetch]_vars

(***************************************************************************)
(* SpecFeed: the flat store (FeedStore) and the fetcher's statistics, one   *)
(* action per handler, following the handler's statements on the store's    *)
(* data and on its file; the file system never fails                         *)
(***************************************************************************)
\* NewFeedStore(path, maxItems), through its load: a missing file and one
\* that does not parse leave the store empty
OpenFeedStore ==
    /\ fstore = "none"
    /\ lastCall = NoCall
    /\ fstore' = "up"
    /\ storeItems' = IF storeFile.kind = "json" THEN storeFile.items ELSE <<>>
    /\ UNCHANGED <<storeMu, lastFetch, storeFile, sem, stats, ctx, urls, wg, errs, ret, gpc>>
    /\ UNCHANGED <<storeVars, lockVars, batchVars, readVars, treeVars>>

\* one fetch task of FetchAll whose fetchFeed returns these items:
\* UpdateFeed(ctx, u) with its Add and save, then f.stats[u] = count
UpdateFeed(u, fetched) ==
    /\ fstore = "up"
    /\ lastCall = NoCall
    /\ \E order \in Orders(FeedsIn(AppendNew(storeItems, ExistingIds(storeItems), fetched))) :
          /\ storeItems' = AddMem(storeItems, fetched, order)
          /\ storeFile' = MarshalItems(AddMem(storeItems, fetched, order))
    /\ lastFetch' = MapSet(lastFetch, u, now)
    /\ stats' = MapSet(stats, u, Len(fetched))
    /\ lastCall' = [u |-> u, items |-> fetched, before |-> storeItems]
    /\ UNCHANGED <<fstore, storeMu, sem, ctx, urls, wg, errs, ret, gpc>>
    /\ UNCHANGED <<proc, feeds, maxAge, file, tmp, now, err, faults, everAdded>>
    /\ UNCHANGED <<lockVars, batchVars, readVars, treeVars>>

\* the process ends: the store and the fetcher are gone, the file stays
ExitFeed ==
    /\ fstore = "up"
    /\ lastCall = NoCall
    /\ fstore' = "none"
    /\ storeItems' = <<>>
    /\ lastFetch' = [u \in {} |-> ZeroTime]
    /\ stats' = [u \in {} |-> 0]
    /\ UNCHANGED <<storeMu, storeFile, sem, ctx, urls, wg, errs, ret, gpc>>
    /\ UNCHANGED <<storeVars, lockVars, batchVars, readVars, treeVars>>

NextFeed ==
    \/ OpenFeedStore
    \/ \E u \in Sources : \E fetched \in Candidates(u) : UpdateFeed(u, fetched)
    \/ ExitFeed
    \/ Tick
    \/ Forget

SpecFeed == InitFetch /\ [][NextFeed]_vars

\* the fetch tasks that hold a permit: past the send to f.sem and not yet past
\* the deferred receive
PermitHolders ==
    {t \in TaskIds : gpc[t] \notin {"none", "select", "skipped", "failed", "done"}}

\* C9: at every instant at most SemSize fetch tasks hold a permit, whatever
\* the number of urls and of overlapping FetchAll calls
C9_PermitsBounded ==
    Cardinality(PermitHolders) <= SemSize

\* SemSize tasks of two overlapping calls hold the permits while a further
\* task waits in its select
C9_Witness ==
    /\ Cardinality(PermitHolders) = SemSize
    /\ \A c \in Callers : TasksOf(c) \cap PermitHolders # {}
    /\ \E t \in TaskIds : gpc[t] = "select"

\* the fetch of task t succeeded: UpdateFeed went on to s.Add
Succeeded(t) == gpc[t] \notin {"none", "select", "skipped", "failed", "fetchFeed"}

\* some goroutine inside a call can go on: it is at a statement that waits
\* for nothing, or a step that may have to wait is enabled
FetchGoesOn ==
    \/ \E g \in FetchGoroutines : gpc[g] \in BodyLabels
    \/ ENABLED WaitStep

\* C10: an update some of whose fetches failed still runs its other fetches to
\* the end and returns, and when it has returned the Records of every source
\* it fetched successfully are in the store
C10_SuccessesStored ==
    \A c \in Callers :
        /\ (/\ gpc[Self(c)] = "wg.Wait"
            /\ \E t \in TasksOf(c) : gpc[t] = "failed"
            /\ \E t \in TasksOf(c) : Succeeded(t))
           => FetchGoesOn
        /\ gpc[Self(c)] \notin {"idle", "wg.Wait"}
           => \A t \in TasksOf(c) :
                 Succeeded(t) => Range(Served(UrlOf(t))) \subseteq Range(storeItems)

\* the labels at which the goroutine of a fetch task has ended
Ended == {"skipped", "failed", "done"}

\* C11: a FetchAll call that has returned has no fetch task still running: each
\* one has skipped, failed or finished; it returned nil exactly when none of
\* its tasks recorded an error, and otherwise the error that was recorded
\* first, which is the error of one of its failed tasks
C11_ReturnsAfterAll ==
    \A c \in Callers :
        ret[c] # NotReturned =>
            /\ \A t \in TasksOf(c) : gpc[t] \in Ended
            /\ ret[c] = NilError <=> ~(\E t \in TasksOf(c) : gpc[t] = "failed")
            /\ ret[c] # NilError =>
                  /\ ret[c] = errs[c][1]
                  /\ \E t \in TasksOf(c) : gpc[t] = "failed" /\ UrlOf(t) = ret[c].url

\* a call has returned the first of two errors of different sources, while
\* another of its tasks had skipped
C11_Witness ==
    \E c \in Callers :
        /\ ret[c] # NotReturned
        /\ Len(errs[c]) >= 2
        /\ errs[c][1].url # errs[c][2].url
        /\ ret[c] = errs[c][1]
        /\ \E t \in TasksOf(c) : gpc[t] = "skipped"

\* the sources that the value returned by c's FetchAll names as failed
FailuresTold(c) == IF ret[c] = NilError THEN {} ELSE {ret[c].url}

\* C12: when a FetchAll call has returned, the sources it reports as failed
\* are exactly the sources whose fetch failed
C12_AllFailuresReported ==
    \A c \in Callers :
        ret[c] # NotReturned =>
            FailuresTold(c) = {UrlOf(t) : t \in {x \in TasksOf(c) : gpc[x] = "failed"}}

\* the Records that the dedup loop of Add appended for the last update
NewlyAdded ==
    LET appended == AppendNew(lastCall.before, ExistingIds(lastCall.before), lastCall.items)
    IN  Len(appended) - Len(lastCall.before)

\* C13: after a successful update of a source, the count retained for it in
\* the statistics is the number of Records that the update newly added to the
\* store
C13_StatsCountNew ==
    lastCall # NoCall =>
        /\ lastCall.u \in DOMAIN stats
        /\ stats[lastCall.u] = NewlyAdded

(***************************************************************************)
(* SpecBatch: BatchProcessor.Start with its fetchBatch, Stop, the ticker    *)
(* and the context.  Fetcher.FetchAll is the call of a sub-batch and what   *)
(* comes back from it: nil, an error, or nothing because a fetch task of    *)
(* the call waits for the store's mutex for ever                            *)
(***************************************************************************)
BatchSizes == 1..MaxBatchSize

\* urls[i:end] of fetchBatch
Batch(list, i, b) == SubSeq(list, i + 1, IF i + b > Len(list) THEN Len(list) ELSE i + b)

\* the labels at which Start has a running ticker
Running == {"loop", "FetchAll", "blocked", "Sleep", "select"}

\* NewBatchProcessor(store, b, interval)
NewBatchProcessor(b) ==
    /\ bpc = "none"
    /\ bpc' = "new"
    /\ batchSize' = b
    /\ done' = "open"
    /\ UNCHANGED <<batchUrls, idx, tick, passes, ticksTaken, handed, results>>
    /\ UNCHANGED <<storeVars, lockVars, fetchVars, readVars, treeVars>>

\* Start without its initial fetch: it goes straight to the select
StartNoPass(list) ==
    /\ bpc = "new"
    /\ batchUrls' = list
    /\ tick' = FALSE
    /\ bpc' = "select"
    /\ UNCHANGED <<batchSize, idx, done, passes, ticksTaken, handed, results>>
    /\ UNCHANGED <<storeVars, lockVars, fetchVars, readVars, treeVars>>

\* Start(ctx, list): a new ticker, then the initial fetchBatch
Start(list) ==
    /\ bpc = "new"
    /\ batchUrls' = list
    /\ tick' = FALSE
    /\ passes' = passes + 1
    /\ idx' = 0
    /\ handed' = <<>>
    /\ results' = <<>>
    /\ bpc' = "loop"
    /\ UNCHANGED <<batchSize, done, ticksTaken>>
    /\ UNCHANGED <<storeVars, lockVars, fetchVars, readVars, treeVars>>

\* the history of a pass keeps its first MaxUrls + 1 entries
Record(history, x) == IF Len(history) <= MaxUrls THEN Append(history, x) ELSE history

\* fetchBatch, i < len(urls): the next sub-batch goes to FetchAll; with a
\* negative batch size end < i, and urls[i:end] panics
HandBatch ==
    /\ bpc = "loop"
    /\ idx < Len(batchUrls)
    /\ IF batchSize < 0
         THEN /\ bpc' = "panic"
              /\ UNCHANGED handed
         ELSE /\ handed' = Record(handed, Batch(batchUrls, idx, batchSize))
              /\ bpc' = "FetchAll"
    /\ UNCHANGED <<batchSize, batchUrls, idx, done, tick, passes, ticksTaken, results>>
    /\ UNCHANGED <<storeVars, lockVars, fetchVars, readVars, treeVars>>

\* fetchBatch, i >= len(urls): the pass is over, Start is at its select
PassEnds ==
    /\ bpc = "loop"
    /\ idx >= Len(batchUrls)
    /\ bpc' = "select"
    /\ UNCHANGED <<batchSize, batchUrls, idx, done, tick, passes, ticksTaken, handed, results>>
    /\ UNCHANGED <<storeVars, lockVars, fetchVars, readVars, treeVars>>

\* FetchAll returns and an error ends the pass
FetchAllReturnsAbort(e) ==
    /\ bpc = "FetchAll"
    /\ results' = Record(results, e)
    /\ idx' = idx + batchSize
    /\ bpc' = IF e = "nil" THEN "Sleep" ELSE "select"
    /\ UNCHANGED <<batchSize, batchUrls, done, tick, passes, ticksTaken, handed>>
    /\ UNCHANGED <<storeVars, lockVars, fetchVars, readVars, treeVars>>

\* FetchAll returns: on an error, continue (i += batchSize); else the pause
FetchAllReturns(e) ==
    /\ bpc = "FetchAll"
    /\ results' = Record(results, e)
    /\ IF e = "nil"
         THEN /\ bpc' = "Sleep"
              /\ UNCHANGED idx
         ELSE /\ bpc' = "loop"
              /\ idx' = idx + batchSize
    /\ UNCHANGED <<batchSize, batchUrls, done, tick, passes, ticksTaken, handed>>
    /\ UNCHANGED <<storeVars, lockVars, fetchVars, readVars, treeVars>>

\* a fetch of the sub-batch succeeded: its task never gets out of Add, and
\* FetchAll stays in wg.Wait()
FetchAllBlocks ==
    /\ bpc = "FetchAll"
    /\ bpc' = "blocked"
    /\ UNCHANGED <<batchSize, batchUrls, idx, done, tick, passes, ticksTaken, handed, results>>
    /\ UNCHANGED <<storeVars, lockVars, fetchVars, readVars, treeVars>>

\* time.Sleep is over; i += batchSize
SleepEnds ==
    /\ bpc = "Sleep"
    /\ idx' = idx + batchSize
    /\ bpc' = "loop"
    /\ UNCHANGED <<batchSize, batchUrls, done, tick, passes, ticksTaken, handed, results>>
    /\ UNCHANGED <<storeVars, lockVars, fetchVars, readVars, treeVars>>

\* the ticker fires; a tick that finds one waiting in the channel is dropped
TickerFire ==
    /\ bpc \in Running
    /\ ~tick
    /\ tick' = TRUE
    /\ UNCHANGED <<bpc, batchSize, batchUrls, idx, done, passes, ticksTaken, handed, results>>
    /\ UNCHANGED <<storeVars, lockVars, fetchVars, readVars, treeVars>>

\* select, case <-ticker.C: fetchBatch again
TakeTick ==
    /\ bpc = "select"
    /\ tick
    /\ passes < MaxPasses
    /\ tick' = FALSE
    /\ ticksTaken' = ticksTaken + 1
    /\ passes' = passes + 1
    /\ idx' = 0
    /\ handed' = <<>>
    /\ results' = <<>>
    /\ bpc' = "loop"
    /\ UNCHANGED <<batchSize, batchUrls, done>>
    /\ UNCHANGED <<storeVars, lockVars, fetchVars, readVars, treeVars>>

\* select, case <-ctx.Done(): return
TakeCtxDone ==
    /\ bpc = "select"
    /\ ctx = "done"
    /\ bpc' = "returned"
    /\ UNCHANGED <<batchSize, batchUrls, idx, done, tick, passes, ticksTaken, handed, results>>
    /\ UNCHANGED <<storeVars, lockVars, fetchVars, readVars, treeVars>>

\* select, case <-bp.done: return
TakeDone ==
    /\ bpc = "select"
    /\ done = "closed"
    /\ bpc' = "returned"
    /\ UNCHANGED <<batchSize, batchUrls, idx, done, tick, passes, ticksTaken, handed, results>>
    /\ UNCHANGED <<storeVars, lockVars, fetchVars, readVars, treeVars>>

\* Stop(): close(bp.done); the close of a closed channel panics, and the
\* panic ends the process
Stop ==
    /\ bpc \notin {"none", "panic"}
    /\ IF done = "open"
         THEN /\ done' = "closed"
              /\ UNCHANGED bpc
         ELSE /\ bpc' = "panic"
              /\ UNCHANGED done
    /\ UNCHANGED <<batchSize, batchUrls, idx, tick, passes, ticksTaken, handed, results>>
    /\ UNCHANGED <<storeVars, lockVars, fetchVars, readVars, treeVars>>

NextBatch ==
    \/ \E b \in BatchSizes : NewBatchProcessor(b)
    \/ \E list \in UrlLists : Start(list)
    \/ HandBatch
    \/ PassEnds
    \/ \E e \in {"nil", "error"} : FetchAllReturns(e)
    \/ FetchAllBlocks
    \/ SleepEnds
    \/ TickerFire
    \/ TakeTick
    \/ TakeCtxDone
    \/ TakeDone
    \/ Stop
    \/ Cancel

InitBatch ==
    /\ InitStore
    /\ file = NoFile
    /\ InitFetchVars(NoFile)

SpecBatch == InitBatch /\ [][NextBatch]_vars

\* C14: once Stop has been called, no further full fetch pass is started
C14_NoPassAfterStop ==
    [][done = "closed" => passes' = passes]_vars

\* C15: from the moment Start runs, the passes started are the initial one
\* and one for each tick received since: the first pass has begun before any
\* tick is waited for
C15_PassPerTick ==
    bpc \notin {"none", "new", "panic"} => passes = ticksTaken + 1

\* the initial pass is over and a tick has started the second one
C15_Witness ==
    /\ bpc = "loop"
    /\ passes = 2
    /\ ticksTaken = 1
    /\ handed = <<>>

\* consecutive sub-batches of b elements of the list, the last one holding
\* the remainder
Partition(list, b) ==
    [k \in 1..((Len(list) + b - 1) \div b) |->
        [j \in 1..(IF k * b > Len(list) THEN Len(list) - (k - 1) * b ELSE b) |->
            list[(k - 1) * b + j]]]

IsPrefix(p, q) == Len(p) <= Len(q) /\ \A i \in 1..Len(p) : p[i] = q[i]

\* C16: the sub-batches handed to FetchAll in a pass are, in order, the first
\* ones of the partition of the urls into sub-batches of batchSize, and all
\* of them once the pass is over, whatever the earlier calls returned
C16_Batches ==
    bpc \notin {"none", "new"} =>
        /\ IsPrefix(handed, Partition(batchUrls, batchSize))
        /\ Len(results) <= Len(handed)
        /\ bpc \in {"select", "returned"} => handed = Partition(batchUrls, batchSize)

\* a pass is over whose first sub-batch came back with an error and whose
\* last sub-batch is the remainder
C16_Witness ==
    /\ bpc = "select"
    /\ Len(handed) = 2
    /\ Len(handed[2]) < batchSize
    /\ results[1] = "error"
    /\ Len(batchUrls) = Len(handed[1]) + Len(handed[2])

(***************************************************************************)
(* The mutex discipline of FeedStore and the context in FetchAll            *)
(***************************************************************************)
\* the statements that write s.items or s.lastFetch
WriteLabels == {"load.locked", "Add.locked", "UpdateFeed.lastFetch"}

\* the statements that read s.items
ReadLabels == {"save.locked", "List.locked"}

\* the labels on the way from one label to a later one, both included
RECURSIVE Between(_, _)
Between(from, to) ==
    IF from = to THEN {to} ELSE {from} \cup Between(Following(from), to)

\* the statements a goroutine executes with the writer side of s.mu: after
\* Lock() has returned and before Unlock()
Guarded == Between("load.locked", "load.locked") \cup Between("Add.locked", "save.write")

\* the statements of a fetch task that has its permit
TaskPath == Between("fetchFeed", "FetchAll.release")

\* the writes and reads that are executed are exclusive: a goroutine at a
\* write holds the writer side and no goroutine is at another write or at a
\* read, a goroutine at a read holds a side of the mutex
WritesExclusive ==
    \A g \in FetchGoroutines :
        /\ gpc[g] \in WriteLabels =>
              /\ storeMu.writer = g
              /\ gpc[g] \in Guarded
              /\ \A h \in FetchGoroutines \ {g} : gpc[h] \notin WriteLabels \cup ReadLabels
        /\ gpc[g] \in ReadLabels => g \in storeMu.readers \/ storeMu.writer = g

C18_NoStartAfterCancel ==
    [][\A t \in TaskIds :
          (ctx = "done" /\ gpc[t] = "select") => gpc'[t] # "fetchFeed"]_vars

\* the errors a returned call's tasks recorded all come from the context
OnlyCancelled(c) ==
    /\ gpc[Self(c)] = "returned"
    /\ \A i \in 1..Len(errs[c]) : errs[c][i].cause = "context"

\* C19: a call none of whose sources failed otherwise than by the
\* cancellation returns no error
C19_CancelNotFailure ==
    \A c \in Callers : OnlyCancelled(c) => ret[c] = NilError

(***************************************************************************)
(* SpecRead: the bucketed store of Spec with PersistentStore.GetItems       *)
(***************************************************************************)
\* largest limit GetItems is called with
MaxLimit == 2
Limits == 0..MaxLimit
\* the since arguments: the zero time (unset) and the times up to the newest
\* published value
Sinces == ZeroTime..StartNow
\* a feedURL the store has never seen
UnknownSource == "u0"

\* mutant: the limit keeps the oldest matches, as FeedStore.List does
GetItemsHead(fs, feedURL, limit, since) ==
    IF feedURL \notin DOMAIN fs THEN <<>>
    ELSE LET result == SelectSeq(fs[feedURL].Items,
                                 LAMBDA item : ~(since # ZeroTime /\ item.Published < since))
         IN  IF limit > 0 /\ Len(result) > limit
             THEN SubSeq(result, 1, limit)
             ELSE result

\* GetItems(feedURL, limit, since)
GetItems(fs, feedURL, limit, since) ==
    IF feedURL \notin DOMAIN fs THEN <<>>
    ELSE LET result == SelectSeq(fs[feedURL].Items,
                                 LAMBDA item : ~(since # ZeroTime /\ item.Published < since))
         IN  IF limit > 0 /\ Len(result) > limit
             THEN SubSeq(result, Len(result) - limit + 1, Len(result))
             ELSE result

\* the items of the buckets visited in this order that pass the since filter
RECURSIVE Collect(_, _, _)
Collect(fs, order, since) ==
    IF order = <<>> THEN <<>>
    ELSE SelectSeq(fs[Head(order)].Items,
                   LAMBDA item : ~(since # ZeroTime /\ item.Published < since))
             \o Collect(fs, Tail(order), since)

\* mutant: the merged items are not sorted
GetAllItemsNoSort(fs, limit, since, order) ==
    LET allItems == Collect(fs, order, since)
    IN  IF limit > 0 /\ Len(allItems) > limit
        THEN SubSeq(allItems, Len(allItems) - limit + 1, Len(allItems))
        ELSE allItems

\* GetAllItems(limit, since), the range over s.feeds visiting the buckets in
\* this order
GetAllItems(fs, limit, since, order) ==
    LET allItems == SliceStable(Collect(fs, order, since))
    IN  IF limit > 0 /\ Len(allItems) > limit
        THEN SubSeq(allItems, Len(allItems) - limit + 1, Len(allItems))
        ELSE allItems

\* no read is being remembered
NoRead == lastGet = NoGet /\ lastQuery = NoQuery

\* a caller reads all sources; the store is left as it is
CallGetAll(limit, since) ==
    /\ proc = "up"
    /\ lastCall = NoCall
    /\ NoRead
    /\ \E order \in Orders(DOMAIN feeds) :
          lastQuery' = [op |-> "GetAllItems", limit |-> limit, filter |-> "", since |-> since,
                        reverse |-> FALSE,
                        result |-> GetAllItems(feeds, limit, since, order)]
    /\ UNCHANGED <<storeVars, lockVars, fetchVars, batchVars, lastGet, treeVars>>

\* a caller reads a source; the store is left as it is
CallGet(u, limit, since) ==
    /\ proc = "up"
    /\ lastCall = NoCall
    /\ NoRead
    /\ lastGet' = [u |-> u, limit |-> limit, since |-> since,
                   result |-> GetItems(feeds, u, limit, since)]
    /\ UNCHANGED <<storeVars, lockVars, fetchVars, batchVars, lastQuery, treeVars>>

\* history only: the record of the last read is dropped before the next step
\* of the program
ForgetGet ==
    /\ lastGet # NoGet
    /\ lastGet' = NoGet
    /\ UNCHANGED <<storeVars, lockVars, fetchVars, batchVars, lastQuery, treeVars>>

\* history only: the record of the last query is dropped before the next
\* step of the program
ForgetQuery ==
    /\ lastQuery # NoQuery
    /\ lastQuery' = NoQuery
    /\ UNCHANGED <<storeVars, lockVars, fetchVars, batchVars, lastGet, treeVars>>

NextRead ==
    \/ \E age \in MaxAges : NoRead /\ NewPersistentStore(age, TRUE)
    \/ \E u \in Sources : \E items \in Candidates(u) :
          NoRead /\ AddItems(u, items, "ok")
    \/ NoRead /\ Exit
    \/ NoRead /\ Tick
    \/ Forget
    \/ \E u \in Sources \cup {UnknownSource}, limit \in Limits, since \in Sinces :
          CallGet(u, limit, since)
    \/ ForgetGet
    \/ \E limit \in Limits, since \in Sinces : CallGetAll(limit, since)
    \/ ForgetQuery

SpecRead == Init /\ [][NextRead]_vars

\* the Records of a bucket that a read with this since argument is about
Matching(bucketItems, since) ==
    SelectSeq(bucketItems, LAMBDA item : since = ZeroTime \/ item.Published >= since)

\* C20: GetItems returns, oldest first, the Records of the source published
\* at or after since (all of them when since is unset), only the last limit
\* of them when limit > 0 and more match, and nothing for an unknown source
C20_GetItems ==
    lastGet # NoGet =>
        LET bucketItems == ItemsIn(feeds, lastGet.u)
            matching == Matching(bucketItems, lastGet.since)
            r == lastGet.result
            n == IF lastGet.limit > 0 /\ Len(matching) > lastGet.limit
                 THEN lastGet.limit ELSE Len(matching)
        IN  /\ IsSorted(r)
            /\ Len(r) = n
            /\ \A i \in 1..n : r[i] = matching[Len(matching) - n + i]
            /\ lastGet.u \notin DOMAIN feeds => r = <<>>

\* a bucket of three Records with three published values is read with since
\* at the second value and limit 1: the answer is the newest Record alone
C20_Witness ==
    /\ lastGet # NoGet
    /\ Len(ItemsIn(feeds, lastGet.u)) = 3
    /\ lastGet.since = ItemsIn(feeds, lastGet.u)[2].Published
    /\ ItemsIn(feeds, lastGet.u)[1].Published < lastGet.since
    /\ lastGet.limit = 1
    /\ lastGet.result = <<ItemsIn(feeds, lastGet.u)[3]>>

(***************************************************************************)
(* SpecList: the flat store of SpecFeed with FeedStore.List                 *)
(***************************************************************************)
\* the characters of the strings that List compares
Text(str) ==
    CASE str = ""         -> <<>>
      [] str = "One"      -> <<"O", "n", "e">>
      [] str = "Feed"     -> <<"F", "e", "e", "d">>
      [] str = "Feed One" -> <<"F", "e", "e", "d", " ", "O", "n", "e">>
      [] str = "Feed Two" -> <<"F", "e", "e", "d", " ", "T", "w", "o">>

\* strings.Contains(str, sub)
Contains(str, sub) ==
    \E i \in 0..(Len(Text(str)) - Len(Text(sub))) :
        SubSeq(Text(str), i + 1, i + Len(Text(sub))) = Text(sub)

\* the feedFilter arguments
Filters == {"", "One", "Feed"}

\* time.Time.After on the published field
PublishedAfter(x, y) == x.Published > y.Published

\* sort.SliceStable(items, less = PublishedAfter): descending, equal keys keep their
\* relative order
RECURSIVE InsertStableAfter(_, _)
InsertStableAfter(sorted, x) ==
    IF sorted = <<>> THEN <<x>>
    ELSE IF PublishedAfter(x, sorted[Len(sorted)])
         THEN Append(InsertStableAfter(SubSeq(sorted, 1, Len(sorted) - 1), x),
                     sorted[Len(sorted)])
         ELSE Append(sorted, x)

RECURSIVE SliceStableAfter(_)
SliceStableAfter(items) ==
    IF items = <<>> THEN <<>>
    ELSE InsertStableAfter(SliceStableAfter(SubSeq(items, 1, Len(items) - 1)),
                           items[Len(items)])

\* the items that pass List's two filters
ListFiltered(items, feedFilter, since) ==
    SelectSeq(items, LAMBDA item :
        /\ ~(feedFilter # "" /\ ~Contains(item.Feed, feedFilter))
        /\ ~(since # ZeroTime /\ item.Published < since))

\* List(limit, feedFilter, since, reverse)
List(items, limit, feedFilter, since, reverse) ==
    LET filtered == ListFiltered(items, feedFilter, since)
        ordered == IF reverse THEN SliceStableAfter(filtered) ELSE SliceStable(filtered)
    IN  IF limit > 0 /\ Len(ordered) > limit THEN SubSeq(ordered, 1, limit) ELSE ordered

\* a caller lists the store; the store is left as it is
CallListQuery(limit, feedFilter, since, reverse) ==
    /\ fstore = "up"
    /\ lastCall = NoCall
    /\ lastQuery = NoQuery
    /\ lastQuery' = [op |-> "List", limit |-> limit, filter |-> feedFilter, since |-> since,
                     reverse |-> reverse,
                     result |-> List(storeItems, limit, feedFilter, since, reverse)]
    /\ UNCHANGED <<storeVars, lockVars, fetchVars, batchVars, lastGet, treeVars>>

NextList ==
    \/ lastQuery = NoQuery /\ OpenFeedStore
    \/ \E u \in Sources : \E fetched \in Candidates(u) :
          lastQuery = NoQuery /\ UpdateFeed(u, fetched)
    \/ lastQuery = NoQuery /\ ExitFeed
    \/ lastQuery = NoQuery /\ Tick
    \/ Forget
    \/ \E limit \in Limits, feedFilter \in Filters, since \in Sinces, reverse \in BOOLEAN :
          CallListQuery(limit, feedFilter, since, reverse)
    \/ ForgetQuery

SpecList == InitFetch /\ [][NextList]_vars

\* C21: with limit > 0 and more than limit matching items, List returns
\* limit of them and none that is older than a matching item left out,
\* whichever way the result is ordered
C21_ListMostRecent ==
    lastQuery.op = "List" =>
        LET matching == Range(ListFiltered(storeItems, lastQuery.filter, lastQuery.since))
            returned == Range(lastQuery.result)
        IN  (lastQuery.limit > 0 /\ Cardinality(matching) > lastQuery.limit) =>
                /\ Len(lastQuery.result) = lastQuery.limit
                /\ returned \subseteq matching
                /\ \A r \in returned, m \in matching \ returned :
                      r.Published >= m.Published

\* the Records of all buckets that a read with this since argument is about
AllMatching(fs, since) ==
    UNION {Range(Matching(fs[u].Items, since)) : u \in DOMAIN fs}

\* C22: GetAllItems returns Records of the buckets published at or after
\* since, each once, ascending by published across the buckets; all of them
\* when no limit applies, and else limit of them, none older than a matching
\* Record left out
C22_GetAllItems ==
    lastQuery.op = "GetAllItems" =>
        LET matching == AllMatching(feeds, lastQuery.since)
            r == lastQuery.result
            n == IF lastQuery.limit > 0 /\ Cardinality(matching) > lastQuery.limit
                 THEN lastQuery.limit ELSE Cardinality(matching)
        IN  /\ IsSorted(r)
            /\ Len(r) = n
            /\ Cardinality(Range(r)) = n
            /\ Range(r) \subseteq matching
            /\ \A x \in Range(r), m \in matching \ Range(r) : x.Published >= m.Published

\* both buckets hold Records, since leaves one out, and the limit cuts the
\* merged sequence, which keeps Records of both sources
C22_Witness ==
    /\ lastQuery.op = "GetAllItems"
    /\ lastQuery.since # ZeroTime
    /\ \E u \in DOMAIN feeds : \E i \in 1..Len(feeds[u].Items) :
          feeds[u].Items[i].Published < lastQuery.since
    /\ lastQuery.limit > 0
    /\ Cardinality(AllMatching(feeds, lastQuery.since)) > lastQuery.limit
    /\ Cardinality(FeedsIn(lastQuery.result)) = 2

\* C23: with maxAge > 0 an AddItems call leaves in the bucket no Record
\* published before now - maxAge and keeps every Record, stored or newly
\* added, published at or after now - maxAge; with maxAge <= 0 it removes
\* no Record
C23_AgeStep ==
    (proc = "up" /\ lastCall # NoCall) =>
        LET bucketItems == Range(ItemsIn(feeds, lastCall.u))
            merged == Range(AppendNew(lastCall.before, ExistingIds(lastCall.before),
                                      lastCall.items))
            cutoff == now - maxAge
        IN  IF maxAge > 0
            THEN /\ \A r \in bucketItems : r.Published >= cutoff
                 /\ \A r \in merged : r.Published >= cutoff => r \in bucketItems
            ELSE bucketItems = merged

\* the Records of a call that the bucket did not hold and that the age step
\* leaves alone
NewAndYoung(c, t, age) ==
    {r \in Range(AppendNew(c.before, ExistingIds(c.before), c.items)) \ Range(c.before) :
        age <= 0 \/ r.Published > t - age}

BucketOf(list, feed) == SelectSeq(list, LAMBDA x : x.Feed = feed)

\* the stores that Add may leave (one for each order in which truncatePerFeed
\* may visit the feeds)
AddResults(stored, new) ==
    {AddMem(stored, new, order) :
        order \in Orders(FeedsIn(AppendNew(stored, ExistingIds(stored), new)))}

\* C26: had another task's add completed before the add that has just
\* completed and not after it, every feed's items would be the same, in the
\* same order
C26_OrderIndependent ==
    (fstore = "up" /\ lastCall # NoCall) =>
        \A u \in Sources : \A other \in Candidates(u) :
            \A thisWay \in AddResults(storeItems, other) :
            \A first \in AddResults(lastCall.before, other) :
            \A otherWay \in AddResults(first, lastCall.items) :
            \A feed \in {FeedOf(v) : v \in Sources} :
                BucketOf(thisWay, feed) = BucketOf(otherWay, feed)

(***************************************************************************)
(* SpecFetchLive: one caller of SpecFetch under the scheduler's fairness.   *)
(* A goroutine that can take a step takes it, and a request whose context   *)
(* is done ends; the remote server may never answer (FetchOk, FetchFail      *)
(* under a live context) and the context may never be cancelled (Cancel),    *)
(* so those steps have no fairness                                           *)
(***************************************************************************)
FirstCaller == "c1"

NextFetchLive ==
    \/ NewFeedStore(FirstCaller)
    \/ \E list \in UrlLists : FetchAll(FirstCaller, list)
    \/ Cancel
    \/ WaitStep
    \/ \E g \in FetchGoroutines : FeedBody(g)
    \/ CallList(FirstCaller)

\* the steps of the goroutines that wait for nothing outside the process:
\* the operations on the channel, the context, the mutex and the wait group
Scheduled ==
    \/ \E g \in FetchGoroutines :
          \/ Acquire(g)
          \/ Skip(g)
          \/ FeedLock(g)
          \/ FeedLockWait(g)
          \/ FeedRLock(g)
          \/ FeedRUnlock(g)
          \/ FeedUnlock(g)
          \* a request whose context is done comes back with the context's error
          \/ (ctx = "done" /\ FetchFail(g))
    \/ \E c \in Callers : Return(c)

\* weak fairness of the statements between two waits, which are enabled
\* exactly at the labels of BodyLabels
BodyFairness ==
    \/ []<>(\A g \in FetchGoroutines : gpc[g] \notin BodyLabels)
    \/ []<><<\E g \in FetchGoroutines : FeedBody(g)>>_vars

SpecFetchLive ==
    InitFetch /\ [][NextFetchLive]_vars /\ WF_vars(Scheduled) /\ BodyFairness

\* C27: the request of every fetch task ends, whether or not the server
\* answers and the context is cancelled, so that the task can finish and
\* release its permit
C27_RequestsEnd ==
    \A t \in TaskIds : (gpc[t] = "fetchFeed") ~> (gpc[t] # "fetchFeed")

(***************************************************************************)
(* SpecTree: BuildFromPath and buildDirectoryTree of FileTree               *)
(* (filetree_printer.go) and of PermissionAwareFileTree (ftree.go) on a     *)
(* directory.  A path is the sequence of the entry names below the root;    *)
(* a name is its rank in the listing ioutil.ReadDir returns, and rank 0 is  *)
(* a name that starts with "."                                              *)
(***************************************************************************)
\* most entries in one directory, the hidden one not counted
MaxWidth == 2
\* largest MaxNodes and MaxDepth a tree is configured with
MaxNodeLimit == 3
MaxDepthLimit == 3
\* directories nest to this depth: the first entry with a visible name is a
\* directory down to it
FsDepth == 3

Widths == 1..MaxWidth
NodeLimits == 1..MaxNodeLimit
DepthLimits == 1..MaxDepthLimit

\* entry.IsDir()
IsDir(path) == Len(path) < FsDepth /\ \A i \in 1..Len(path) : path[i] = 1

\* strings.HasPrefix(entry.Name(), ".")
Hidden(name) == name = 0

\* ioutil.ReadDir(node.Path): the names, sorted
ReadDir(w, path) == [i \in 1..(w + 1) |-> i - 1]

\* filterEntries under the default ignore list and no pattern
filterEntries(cfg, names) ==
    SelectSeq(names, LAMBDA name : ~(~cfg.ShowHidden /\ Hidden(name)))

\* a call of buildDirectoryTree(node, depth): i is the loop index, entered
\* whether the checks before the loop are passed
Frame(path, depth) == [path |-> path, depth |-> depth, i |-> 1, entered |-> FALSE]

Top == stack[Len(stack)]
TopEntries == filterEntries(treeCfg, ReadDir(fsWidth, Top.path))

\* the innermost call returns; the outermost returns to BuildFromPath, which
\* returns what it got
Pop(result) ==
    /\ stack' = SubSeq(stack, 1, Len(stack) - 1)
    /\ tstate' = IF Len(stack) = 1 THEN result ELSE tstate

\* BuildFromPath(path) on a directory: the root node, then buildDirectoryTree
BuildFromPath(impl, cfg, w) ==
    /\ tstate = "idle"
    /\ impl = "FileTree" => ~cfg.NoLimit
    /\ tstate' = "building"
    /\ treeImpl' = impl
    /\ treeCfg' = cfg
    /\ fsWidth' = w
    /\ tree' = {<<>>}
    /\ nodeCount' = 1
    /\ stack' = <<Frame(<<>>, 1)>>
    /\ UNCHANGED <<storeVars, lockVars, fetchVars, batchVars, readVars>>

\* the checks of buildDirectoryTree before its loop
Refused ==
    IF treeImpl = "FileTree"
    THEN Top.depth > treeCfg.MaxDepth
    ELSE \/ (Top.depth > treeCfg.MaxDepth /\ ~treeCfg.NoLimit)
         \/ (nodeCount >= treeCfg.MaxNodes /\ ~treeCfg.NoLimit)

EnterDirectory ==
    /\ tstate = "building"
    /\ ~Top.entered
    /\ IF Refused
         THEN Pop("done")
         ELSE /\ stack' = [stack EXCEPT ![Len(stack)].entered = TRUE]
              /\ UNCHANGED tstate
    /\ UNCHANGED <<treeImpl, treeCfg, fsWidth, tree, nodeCount>>
    /\ UNCHANGED <<storeVars, lockVars, fetchVars, batchVars, readVars>>

\* FileTree only: the check of the node count at the head of the loop body
AtLimit == treeImpl = "FileTree" /\ nodeCount >= treeCfg.MaxNodes

\* one entry: its node is appended to the parent and counted; a directory
\* is descended into if FollowLinks is set
AddEntry ==
    /\ tstate = "building"
    /\ Top.entered
    /\ Top.i <= Len(TopEntries)
    /\ ~AtLimit
    /\ LET child == Append(Top.path, TopEntries[Top.i])
           next == [stack EXCEPT ![Len(stack)].i = @ + 1]
       IN  /\ tree' = tree \cup {child}
           /\ nodeCount' = nodeCount + 1
           /\ stack' = IF IsDir(child) /\ treeCfg.FollowLinks
                       THEN Append(next, Frame(child, Top.depth + 1))
                       ELSE next
    /\ UNCHANGED <<tstate, treeImpl, treeCfg, fsWidth>>
    /\ UNCHANGED <<storeVars, lockVars, fetchVars, batchVars, readVars>>

\* FileTree: the node count has reached MaxNodes, the call returns an error;
\* a calling buildDirectoryTree drops it and goes on with its loop
LimitReached ==
    /\ tstate = "building"
    /\ Top.entered
    /\ Top.i <= Len(TopEntries)
    /\ AtLimit
    /\ Pop("error")
    /\ UNCHANGED <<treeImpl, treeCfg, fsWidth, tree, nodeCount>>
    /\ UNCHANGED <<storeVars, lockVars, fetchVars, batchVars, readVars>>

\* the loop is over
LeaveDirectory ==
    /\ tstate = "building"
    /\ Top.entered
    /\ Top.i > Len(TopEntries)
    /\ Pop("done")
    /\ UNCHANGED <<treeImpl, treeCfg, fsWidth, tree, nodeCount>>
    /\ UNCHANGED <<storeVars, lockVars, fetchVars, batchVars, readVars>>

NextTree ==
    \/ \E impl \in {"FileTree", "PermissionAware"}, maxDepth \in DepthLimits,
          maxNodes \in NodeLimits, followLinks \in BOOLEAN, noLimit \in BOOLEAN,
          showHidden \in BOOLEAN, w \in Widths :
         BuildFromPath(impl, Config(maxDepth, maxNodes, followLinks, noLimit, showHidden), w)
    \/ EnterDirectory
    \/ AddEntry
    \/ LimitReached
    \/ LeaveDirectory

SpecTree == InitBatch /\ [][NextTree]_vars

\* C28: with no-limit mode off, the tree never has more than MaxNodes nodes
\* and the node counter never exceeds MaxNodes
C28_NodeLimit ==
    (tstate # "idle" /\ ~treeCfg.NoLimit) =>
        /\ nodeCount <= treeCfg.MaxNodes
        /\ Cardinality(tree) <= treeCfg.MaxNodes

\* the paths of the directory's entries, at any depth, none with a hidden
\* name on the way
RECURSIVE Visible(_, _)
Visible(w, path) ==
    IF ~IsDir(path) THEN {}
    ELSE UNION {{Append(path, k)} \cup Visible(w, Append(path, k)) : k \in 1..w}

\* C29: a tree built with the default options (links not followed, hidden
\* names not shown, no-limit mode off) that stopped short of the node limit
\* has a node for every entry with a visible path at depth <= MaxDepth
C29_Recursive ==
    (/\ tstate = "done"
     /\ ~treeCfg.FollowLinks /\ ~treeCfg.NoLimit /\ ~treeCfg.ShowHidden
     /\ nodeCount < treeCfg.MaxNodes) =>
        \A path \in Visible(fsWidth, <<>>) :
            Len(path) <= treeCfg.MaxDepth => path \in tree

(***************************************************************************)
(* FeedStore.Add, the two retention steps: truncatePerFeed, then "keep     *)
(* only latest items overall"                                              *)
(***************************************************************************)
\* s.items after the dedup loop and the sort of the last Add
Appended == SliceStable(AppendNew(lastCall.before, ExistingIds(lastCall.before), lastCall.items))

\* what truncatePerFeed can leave of them, by the order of its map iteration
PerFeedResults == {truncatePerFeed(Appended, order) : order \in Orders(FeedsIn(Appended))}

OfFeed(list, feed) == SelectSeq(list, LAMBDA x : x.Feed = feed)

\* a candidate of the last update whose id was stored before the update, but
\* only with other feeds, while its own feed had room below the cap
ForeignIdOnly(x) ==
    /\ x.ID \notin ExistingIds(OfFeed(lastCall.before, x.Feed))
    /\ x.ID \in ExistingIds(lastCall.before)
    /\ Len(OfFeed(lastCall.before, x.Feed)) + Len(lastCall.items) <= MaxItems

\* C31: on the fetch path, a candidate whose id is stored only with another
\* source is added to its own source
C31_DedupPerSource ==
    lastCall # NoCall =>
        \A x \in Range(lastCall.items) :
            ForeignIdOnly(x) => x.ID \in ExistingIds(OfFeed(storeItems, x.Feed))

\* C32: a fetch task that holds a permit and whose fetch has succeeded goes
\* on to release the permit (the success path and the persistence-error path
\* of the claim both start here)
C32_PermitsReleased ==
    \A t \in TaskIds : (gpc[t] = "Add.Lock") ~> (t \notin PermitHolders)

(***************************************************************************)
(* SpecBatchLive: the scheduler with any batch size, under the assumptions  *)
(* that every FetchAll call returns and that a select which is reached      *)
(* again and again with a channel ready takes that channel in the end       *)
(***************************************************************************)
\* the batch sizes NewBatchProcessor accepts: it checks nothing
AnyBatchSizes == (-1)..MaxBatchSize

NextBatchLive ==
    \/ \E b \in AnyBatchSizes : NewBatchProcessor(b)
    \/ \E list \in UrlLists : Start(list)
    \/ HandBatch
    \/ PassEnds
    \/ \E e \in {"nil", "error"} : FetchAllReturns(e)
    \/ SleepEnds
    \/ TickerFire
    \/ TakeTick
    \/ TakeCtxDone
    \/ TakeDone
    \/ Stop
    \/ Cancel

\* the steps of fetchBatch: the loop, the return of FetchAll, the pause
PassSteps ==
    \/ HandBatch
    \/ PassEnds
    \/ \E e \in {"nil", "error"} : FetchAllReturns(e)
    \/ SleepEnds

SpecBatchLive ==
    /\ InitBatch /\ [][NextBatchLive]_vars
    /\ WF_vars(PassSteps)
    /\ SF_vars(TakeDone) /\ SF_vars(TakeCtxDone)

\* C33: once Stop has been called or the context is done, a running Start
\* returns, unless a panic has ended the process before
C33_StartReturns ==
    (bpc \in Running /\ (done = "closed" \/ ctx = "done")) ~> (bpc \in {"returned", "panic"})

(***************************************************************************)
(* SpecTies: the flat store fed by a source that reports two Records with   *)
(* one published value and a newer one                                      *)
(***************************************************************************)
\* the (id, published) pairs the parser reports here
TiedReported(u) ==
    IF u = "u1" THEN {<<"a", 2>>, <<"b", 2>>, <<"c", 3>>}
    ELSE {<<"a", 2>>}

TiedCandidates(u) == SeqsUpTo({FeedItem(u, r[1], r[2]) : r \in TiedReported(u)}, MaxBatch)

NextTies ==
    \/ OpenFeedStore
    \/ \E u \in Sources : \E fetched \in TiedCandidates(u) : UpdateFeed(u, fetched)
    \/ ExitFeed
    \/ Forget

SpecTies == InitFetch /\ [][NextTies]_vars

\* C34: after an update of a source, applying the same candidate list once
\* more leaves the Records retained for that source, and their order, as
\* they are
C34_Idempotent ==
    lastCall # NoCall =>
        \A order \in Orders(FeedsIn(AppendNew(storeItems, ExistingIds(storeItems), lastCall.items))) :
            OfFeed(AddMem(storeItems, lastCall.items, order), FeedOf(lastCall.u))
                = OfFeed(storeItems, FeedOf(lastCall.u))

\* C35: every GetAllItems call with the limit and since of the last one, on
\* the store as it is, returns what the last one returned, whatever the order
\* in which the range over s.feeds visits the buckets
C35_Deterministic ==
    lastQuery.op = "GetAllItems" =>
        \A order \in Orders(DOMAIN feeds) :
            GetAllItems(feeds, lastQuery.limit, lastQuery.since, order) = lastQuery.result

\* C36: no call of Stop, in whatever state of the scheduler, ends in a panic
C36_StopSafe ==
    bpc # "panic"

(***************************************************************************)
(* SpecStats: FetchAll calls one after the other on one Fetcher, as         *)
(* fetchBatch makes them; what a task does between the success of its fetch *)
(* and its end is one action that follows the statements on the data        *)
(***************************************************************************)
\* the rest of a task whose fetch succeeded: Add with its save, the time of
\* the fetch, f.stats[u] = count, then the deferred receive and wg.Done()
TaskStores(t) ==
    /\ gpc[t] = "Add.Lock"
    /\ LET u == UrlOf(t)
           fetched == Served(u)
       IN  /\ \E order \in Orders(FeedsIn(AppendNew(storeItems, ExistingIds(storeItems), fetched))) :
                 /\ storeItems' = AddMem(storeItems, fetched, order)
                 /\ storeFile' = MarshalItems(AddMem(storeItems, fetched, order))
           /\ lastFetch' = MapSet(lastFetch, u, now)
           /\ stats' = MapSet(stats, u, Len(fetched))
    /\ sem' = sem - 1
    /\ wg' = [wg EXCEPT ![CallerOf(t)] = @ - 1]
    /\ gpc' = [gpc EXCEPT ![t] = "done"]
    /\ UNCHANGED <<fstore, storeMu, ctx, urls, errs, ret>>
    /\ UNCHANGED <<storeVars, lockVars, batchVars, readVars, treeVars>>

\* no FetchAll call is running
NoCallRunning == \A c \in Callers : gpc[Self(c)] # "wg.Wait"

NextStats ==
    \/ OpenFeedStore
    \/ \E c \in Callers, list \in UrlLists : NoCallRunning /\ FetchAll(c, list)
    \/ \E t \in TaskIds : Acquire(t)
    \/ \E t \in TaskIds : FetchOk(t)
    \/ \E t \in TaskIds : FetchFail(t)
    \/ \E t \in TaskIds : TaskStores(t)
    \/ \E c \in Callers : Return(c)

SpecStats == InitFetch /\ [][NextStats]_vars

C38_PassTerminates ==
    (bpc = "loop") ~> (bpc \in {"select", "panic"})

(***************************************************************************)
(* SpecFrame: a process that runs one of the two stores, the bucketed one  *)
(* or the flat one, and adds to it for one source after the other          *)
(***************************************************************************)
NextFrame ==
    \/ \E age \in MaxAges : fstore = "none" /\ NewPersistentStore(age, TRUE)
    \/ \E u \in Sources : \E items \in Candidates(u) : AddItems(u, items, "ok")
    \/ proc = "down" /\ OpenFeedStore
    \/ \E u \in Sources : \E fetched \in Candidates(u) : UpdateFeed(u, fetched)
    \/ Tick
    \/ Forget

SpecFrame == InitFetch /\ [][NextFrame]_vars

\* C39: an add for one source leaves the Records of every other source as
\* they were, the same Records in the same order: the other buckets of the
\* bucketed store, the items of the other feeds in the flat store
C39_OtherSourcesKept ==
    [][(lastCall = NoCall /\ lastCall' # NoCall) =>
          \A v \in Sources \ {lastCall'.u} :
              /\ ItemsIn(feeds', v) = ItemsIn(feeds, v)
              /\ OfFeed(storeItems', FeedOf(v)) = OfFeed(storeItems, FeedOf(v))]_vars

\* the flat store held two Records of Feed One with one published value; an
\* add for Feed Two has put a Record with that published value ahead of them
C39_Witness ==
    /\ lastCall # NoCall
    /\ fstore = "up"
    /\ lastCall.u = "u2"
    /\ Len(OfFeed(lastCall.before, "Feed One")) = 2
    /\ OfFeed(lastCall.before, "Feed One")[1].Published
           = OfFeed(lastCall.before, "Feed One")[2].Published
    /\ Len(storeItems) = 3
    /\ storeItems[1].Feed = "Feed Two"
    /\ storeItems[1].Published = storeItems[3].Published
====
